---------------------------- MODULE Spec2Model ----------------------------
(***************************************************************************)
(* Model of the two-level hash map of src/src/hashmap.c: a fixed primary   *)
(* table of buckets, each bucket a doubling array of slots probed          *)
(* linearly.  Slot arrays are functions over 0..capacity-1, as in C.       *)
(* A 64-bit hash is the pair of its 32-bit words [lo, hi] (hash =          *)
(* hi * 2^32 + lo); a data reference is a positive number, NULL is 0.      *)
(*                                                                         *)
(* The program's state is table, capacity, free_item, tmp, tmp_capacity.   *)
(* workload is the caller: which keys it uses and how.  last, inserted,    *)
(* lastset, deletes and fault record what the calls did.                   *)
(***************************************************************************)
EXTENDS Integers, Sequences, FiniteSets, TLC

VARIABLES table, capacity, free_item, tmp, tmp_capacity,
          workload, last, inserted, lastset, deletes, fault

vars == <<table, capacity, free_item, tmp, tmp_capacity,
          workload, last, inserted, lastset, deletes, fault>>

(* ------------------------------ bounds -------------------------------- *)
(* primary capacity passed to hashmap_create *)
PrimaryCapacity == 2
(* data references a caller of the churn and spread workloads owns *)
MaxData == 3
(* successful deletes of the churn workload *)
MaxDeletes == 2
(* successful deletes of the cycle workload *)
MaxCycleDeletes == 5
(* no bucket grows beyond this capacity *)
MaxBucketCapacity == 16

(* ----------------------------- constants ------------------------------ *)
NULL == 0
HASH_MAP_BUCKET_SIZE == 8
NoItem == -1
NoKey == ""
(* the loop bounds of test_bucket_shrinking *)
initial_items == 9
items_to_delete == 7

(* The hash function the caller supplies, as a table over the key strings *)
(* the workloads use.  All of them select primary bucket 0 for a primary   *)
(* capacity of 1, 2 or 3, but those of the spread workload ("s1", its     *)
(* namesake "t1" with the same hash, "s2", "s3"), which select two or      *)
(* three buckets, and the keys "a_key_0" .. "a_key_8" of                   *)
(* test_bucket_shrinking with the hashes collision_hash gives them.  The   *)
(* empty string hashes to 0, as with collision_hash.                       *)
hash_function(key) ==
  CASE key = "k00" -> [lo |-> 0,  hi |-> 0]
    [] key = "k60" -> [lo |-> 6,  hi |-> 0]
    [] key = "k01" -> [lo |-> 0,  hi |-> 1]
    [] key = "c07" -> [lo |-> 0,  hi |-> 7]
    [] key = "c67" -> [lo |-> 6,  hi |-> 7]
    [] key = "f0"  -> [lo |-> 0,  hi |-> 7]
    [] key = "f1"  -> [lo |-> 0,  hi |-> 15]
    [] key = "f2"  -> [lo |-> 6,  hi |-> 7]
    [] key = "f3"  -> [lo |-> 0,  hi |-> 0]
    [] key = "f4"  -> [lo |-> 0,  hi |-> 8]
    [] key = "f5"  -> [lo |-> 0,  hi |-> 23]
    [] key = "f6"  -> [lo |-> 6,  hi |-> 1]
    [] key = "f7"  -> [lo |-> 12, hi |-> 16]
    [] key = "f8"  -> [lo |-> 0,  hi |-> 31]
    [] key = "f9"  -> [lo |-> 0,  hi |-> 3]
    [] key = "s1"  -> [lo |-> 1,  hi |-> 0]
    [] key = "t1"  -> [lo |-> 1,  hi |-> 0]
    [] key = "s2"  -> [lo |-> 2,  hi |-> 0]
    [] key = "s3"  -> [lo |-> 3,  hi |-> 8]
    [] key = "a_key_0" -> [lo |-> 97, hi |-> 567]
    [] key = "a_key_1" -> [lo |-> 97, hi |-> 568]
    [] key = "a_key_2" -> [lo |-> 97, hi |-> 569]
    [] key = "a_key_3" -> [lo |-> 97, hi |-> 570]
    [] key = "a_key_4" -> [lo |-> 97, hi |-> 571]
    [] key = "a_key_5" -> [lo |-> 97, hi |-> 572]
    [] key = "a_key_6" -> [lo |-> 97, hi |-> 573]
    [] key = "a_key_7" -> [lo |-> 97, hi |-> 574]
    [] key = "a_key_8" -> [lo |-> 97, hi |-> 575]
    [] key = ""    -> [lo |-> 0,  hi |-> 0]

(* The callers.  keys: the key strings used, in the order an ordered       *)
(* caller sets them.  An ordered caller sets the keys one after another    *)
(* in that order, each once, with the key's position as its data           *)
(* reference (the loop of test_collisions_and_bucket_growth); any other    *)
(* caller passes the smallest reference the map does not hold: the map     *)
(* compares a reference with NULL only, so which of the references it does *)
(* not hold is passed makes no difference to it.  deletes: how many        *)
(* deletes may succeed.  oom: whether allocations may fail.  callbacks:    *)
(* whether a free_item callback is passed to hashmap_create.  Fill(r)      *)
(* sets the ten keys of FillKeys in the order rotated by r.  Spread sets   *)
(* keys of several buckets, two of them with one hash, and deletes none.   *)
(* Shrink is test_bucket_shrinking: it sets initial_items keys of one      *)
(* bucket, then deletes the first items_to_delete of them in order.        *)
Churn == [name |-> "churn", keys |-> <<"k00", "k60", "k01">>, ordered |-> FALSE,
          deletes |-> MaxDeletes, oom |-> TRUE, callbacks |-> {TRUE}]
Cycle == [name |-> "cycle", keys |-> <<"c07", "c67">>, ordered |-> FALSE,
          deletes |-> MaxCycleDeletes, oom |-> TRUE, callbacks |-> {TRUE}]
FillKeys == <<"f0", "f1", "f2", "f3", "f4", "f5", "f6", "f7", "f8", "f9">>
Fill(r) == [name |-> "fill",
            keys |-> [i \in 1..Len(FillKeys) |->
                        FillKeys[((i - 1 + r) % Len(FillKeys)) + 1]],
            ordered |-> TRUE, deletes |-> 0, oom |-> FALSE,
            callbacks |-> {TRUE}]
Fills == {Fill(r) : r \in 0..(Len(FillKeys) - 1)}
Spread == [name |-> "spread", keys |-> <<"s1", "t1", "s2", "s3">>,
           ordered |-> FALSE, deletes |-> 0, oom |-> TRUE, callbacks |-> BOOLEAN]
Shrink == [name |-> "shrink",
           keys |-> <<"a_key_0", "a_key_1", "a_key_2", "a_key_3", "a_key_4",
                      "a_key_5", "a_key_6", "a_key_7", "a_key_8">>,
           ordered |-> TRUE, deletes |-> items_to_delete, oom |-> FALSE,
           callbacks |-> {TRUE}]

Keys == {workload.keys[i] : i \in 1..Len(workload.keys)}
Pos(key) == CHOOSE i \in 1..Len(workload.keys) : workload.keys[i] = key
(* The references a caller owns: MaxData of them, and for the cycle       *)
(* caller one more than it has keys.                                      *)
Data ==
  1..(IF workload.name = "cycle" THEN Len(workload.keys) + 1 ELSE MaxData)

Min(S) == CHOOSE x \in S : \A y \in S : x <= y

(* A comparison that forgets the primary half. *)
KEY_EQU_SecondaryOnly(a, b) == a.skey = b.skey

(* A comparison that forgets the secondary half. *)
KEY_EQU_PrimaryOnly(a, b) == a.pkey = b.pkey

KEY_EQU(a, b) == (a.pkey = b.pkey) /\ (a.skey = b.skey)

ZeroKey == [pkey |-> 0, skey |-> 0]
ZeroItem == [key |-> ZeroKey, data |-> NULL]

(* A bucket whose slot array is allocated at creation. *)
ZeroBucket_Allocated ==
  [items |-> [i \in 0..(HASH_MAP_BUCKET_SIZE - 1) |-> ZeroItem], count |-> 0,
   capacity |-> HASH_MAP_BUCKET_SIZE]

(* a bucket of the calloc'ed table: no slot array, count and capacity 0 *)
ZeroBucket == [items |-> [i \in {} |-> ZeroItem], count |-> 0, capacity |-> 0]

(* calloc / memset(0) of n slots *)
ZeroItems(n) == [i \in 0..(n - 1) |-> ZeroItem]

_compute_key(key) ==
  LET ukey == hash_function(key)
  IN  [pkey |-> ukey.lo, skey |-> ukey.hi]

(* A bucket chosen by the high half of the hash, and a table that keeps   *)
(* everything in its first bucket.                                        *)
BucketOf_Secondary(key) == key.skey % capacity
BucketOf_Zero(key) == 0

BucketOf(key) == key.pkey % capacity

(* A lookup of a present key that gives up at the first slot without     *)
(* data.                                                                  *)
_get_item_StopAtEmpty(node, key, empty) ==
  IF node.capacity = 0 THEN NoItem
  ELSE
    LET idx == key.skey % node.capacity
        slot(i) == node.items[(idx + i) % node.capacity]
        holes == {i \in 0..(node.capacity - 1) : slot(i).data = NULL}
        hits == {i \in 0..(node.capacity - 1) :
                   /\ slot(i).data # NULL /\ KEY_EQU(slot(i).key, key)
                   /\ \A h \in holes : i < h}
    IN  IF empty /\ holes # {} /\ (hits = {} \/ Min(holes) < Min(hits))
        THEN (idx + Min(holes)) % node.capacity
        ELSE IF hits = {} THEN NoItem
        ELSE (idx + Min(hits)) % node.capacity

(* A lookup that runs to the end of the slot array without wrapping. *)
_get_item_NoWrap(node, key, empty) ==
  IF node.capacity = 0 THEN NoItem
  ELSE
    LET idx == key.skey % node.capacity
        hits == {i \in idx..(node.capacity - 1) :
                   \/ node.items[i].data # NULL /\ KEY_EQU(node.items[i].key, key)
                   \/ empty /\ node.items[i].data = NULL}
    IN  IF hits = {} THEN NoItem ELSE Min(hits)

(* Index of the slot _get_item returns in bucket node, NoItem for NULL.   *)
_get_item(node, key, empty) ==
  IF node.capacity = 0 THEN NoItem
  ELSE
    LET idx == key.skey % node.capacity
        slot(i) == node.items[(idx + i) % node.capacity]
        hits == {i \in 0..(node.capacity - 1) :
                   \/ slot(i).data # NULL /\ KEY_EQU(slot(i).key, key)
                   \/ empty /\ slot(i).data = NULL}
    IN  IF hits = {} THEN NoItem ELSE (idx + Min(hits)) % node.capacity

(* A re-insertion that does not probe: a slot whose start index is taken  *)
(* is dropped.                                                            *)
RECURSIVE Reinsert_NoProbe(_, _, _, _, _)
Reinsert_NoProbe(items, new_capacity, scratch, i, old_capacity) ==
  IF i >= old_capacity THEN items
  ELSE
    LET idx == scratch[i].key.skey % new_capacity
    IN  IF items[idx].data # NULL
        THEN Reinsert_NoProbe(items, new_capacity, scratch, i + 1, old_capacity)
        ELSE Reinsert_NoProbe([items EXCEPT ![idx] = scratch[i]],
                              new_capacity, scratch, i + 1, old_capacity)

(* The re-insertion loop of _grow_node_if_needed: every slot of the       *)
(* scratch copy, occupied or not, goes to the first slot without data.    *)
RECURSIVE Reinsert(_, _, _, _, _)
Reinsert(items, new_capacity, scratch, i, old_capacity) ==
  IF i >= old_capacity THEN items
  ELSE
    LET idx == scratch[i].key.skey % new_capacity
        free == {j \in 0..(new_capacity - 1) :
                   items[(idx + j) % new_capacity].data = NULL}
    IN  IF free = {}
        THEN Reinsert(items, new_capacity, scratch, i + 1, old_capacity)
        ELSE Reinsert([items EXCEPT ![(idx + Min(free)) % new_capacity] = scratch[i]],
                      new_capacity, scratch, i + 1, old_capacity)

(* memcpy(map->_tmp, node->items, ...): the first n slots of the scratch  *)
(* buffer take the bucket's slots, the rest of the buffer is kept.        *)
CopyToTmp(buf, buf_capacity, items, n) ==
  [i \in 0..(buf_capacity - 1) |-> IF i < n THEN items[i] ELSE buf[i]]

(* A growth check with its early return inverted: a bucket with room      *)
(* reports failure, a bucket without room is left as it is.               *)
_grow_node_if_needed_BadReturn(b, oom) ==
  [ok |-> ~(table[b].count + 1 < table[b].capacity) /\ table[b].capacity = 0,
   node |-> IF table[b].capacity = 0
            THEN [items |-> ZeroItems(HASH_MAP_BUCKET_SIZE), count |-> 0,
                  capacity |-> HASH_MAP_BUCKET_SIZE]
            ELSE table[b],
   tmp |-> tmp, tmp_capacity |-> tmp_capacity,
   grew |-> table[b].capacity = 0, nomem |-> FALSE]

(* A growth that allocates a bucket's first slot array and never doubles  *)
(* one.                                                                   *)
_grow_node_if_needed_NoDoubling(b, oom) ==
  [ok |-> TRUE,
   node |-> IF table[b].capacity = 0
            THEN [items |-> ZeroItems(HASH_MAP_BUCKET_SIZE), count |-> 0,
                  capacity |-> HASH_MAP_BUCKET_SIZE]
            ELSE table[b],
   tmp |-> tmp, tmp_capacity |-> tmp_capacity,
   grew |-> table[b].capacity = 0, nomem |-> FALSE]

(* A growth that goes on as if the failed allocation had succeeded. *)
_grow_node_if_needed_IgnoresFailure(b, oom) ==
  [ok |-> TRUE,
   node |-> IF table[b].capacity = 0
            THEN [items |-> ZeroItems(HASH_MAP_BUCKET_SIZE), count |-> 0,
                  capacity |-> HASH_MAP_BUCKET_SIZE]
            ELSE table[b],
   tmp |-> tmp, tmp_capacity |-> tmp_capacity,
   grew |-> table[b].capacity = 0, nomem |-> oom # 0]

(* _grow_node_if_needed on bucket b; oom is the number of the allocation  *)
(* of this call that fails (0: none).  The result holds the return value  *)
(* and the bucket and scratch buffer the call leaves behind.              *)
_grow_node_if_needed(b, oom) ==
  LET node == table[b]
      same == [ok |-> TRUE, node |-> node, tmp |-> tmp,
               tmp_capacity |-> tmp_capacity, grew |-> FALSE, nomem |-> FALSE]
  IN
  IF node.count + 1 < node.capacity THEN same
  ELSE
    LET new_capacity == IF node.capacity = 0 THEN HASH_MAP_BUCKET_SIZE
                        ELSE node.capacity * 2
    IN
    IF node.capacity > 0 THEN
      LET need_tmp == tmp_capacity < node.capacity
          tmp_fails == need_tmp /\ oom = 1
          items_fails == (need_tmp /\ oom = 2) \/ (~need_tmp /\ oom = 1)
          cap2 == IF need_tmp THEN node.capacity ELSE tmp_capacity
          tmp2 == CopyToTmp(tmp, cap2, node.items, node.capacity)
      IN
      IF tmp_fails THEN [same EXCEPT !.ok = FALSE, !.nomem = TRUE]
      ELSE IF items_fails
      THEN [same EXCEPT !.ok = FALSE, !.nomem = TRUE,
                        !.tmp = tmp2, !.tmp_capacity = cap2]
      ELSE [ok |-> TRUE,
            node |-> [items |-> Reinsert(ZeroItems(new_capacity), new_capacity,
                                         tmp2, 0, node.capacity),
                      count |-> node.count,
                      capacity |-> new_capacity],
            tmp |-> tmp2, tmp_capacity |-> cap2,
            grew |-> TRUE, nomem |-> FALSE]
    ELSE
      IF oom = 1 THEN [same EXCEPT !.ok = FALSE, !.nomem = TRUE]
      ELSE [same EXCEPT !.node = [items |-> ZeroItems(new_capacity),
                                  count |-> node.count,
                                  capacity |-> new_capacity],
                        !.grew = TRUE]

(* ------------------------------ history ------------------------------- *)
(* last records the most recent call: its arguments (key, data, want: an  *)
(* out-parameter was passed), its boolean result (ok), the reference      *)
(* hashmap_get returned (ret), the reference hashmap_delete wrote through *)
(* its out-parameter (out), what the call handed to the free_item         *)
(* callback, whether the bucket grew, whether an allocation failed, and   *)
(* the key the call before it deleted (after).  hashed: the call reached  *)
(* the hash function.  visits: the (key, data) pairs hashmap_iterate      *)
(* passed to its callback, in order.  A call stopped by an assertion has  *)
(* op "assert" and the name of the function called in fn.  inserted holds *)
(* the two-part keys of every successful hashmap_set, lastset the data    *)
(* last set with each of them and not deleted since, deletes counts the   *)
(* successful deletes, fault is set when a call trapped or aborted.       *)
NoCall == [op |-> "create", key |-> NoKey, data |-> NULL, ok |-> TRUE,
           ret |-> NULL, want |-> FALSE, out |-> NULL, freed |-> <<>>,
           grew |-> FALSE, nomem |-> FALSE, after |-> NoKey,
           hashed |-> FALSE, visits |-> <<>>, fn |-> "create"]

(* The key the call before this one deleted, NoKey if it deleted none. *)
JustDeleted == IF last.op = "delete" /\ last.ok THEN last.key ELSE NoKey

(* hashmap_create(PrimaryCapacity, hash_function, free_item) for the      *)
(* caller w. *)
hashmap_create(w) ==
  /\ capacity = PrimaryCapacity
  /\ free_item \in w.callbacks
  /\ table = [b \in 0..(capacity - 1) |-> ZeroBucket]
  /\ tmp = [i \in {} |-> ZeroItem]
  /\ tmp_capacity = 0
  /\ workload = w
  /\ last = NoCall
  /\ inserted = {}
  /\ lastset = [k \in {} |-> NULL]
  /\ deletes = 0
  /\ fault = FALSE

Init == \E w \in {Churn, Cycle, Spread, Shrink} \cup Fills : hashmap_create(w)

(* The map can be called: no call trapped or aborted, and it was not      *)
(* destroyed.                                                             *)
Usable == ~fault /\ last.op # "destroy"

(* An assertion that lets every key pass. *)
key_len_positive_Unchecked(key) == TRUE

(* size_t key_len = strlen(key); assert(key_len > 0); *)
key_len_positive(key) == Len(key) > 0

(* The assertion of _compute_key fails in a call of fn: the process       *)
(* aborts before the hash function is called.                             *)
assert_fails(fn, key) ==
  /\ Usable
  /\ fault' = TRUE
  /\ last' = [NoCall EXCEPT !.op = "assert", !.fn = fn, !.key = key,
                            !.ok = FALSE, !.after = NoKey]
  /\ UNCHANGED <<table, capacity, free_item, tmp, tmp_capacity,
                 workload, inserted, lastset, deletes>>

(* The references held by the slots of the map. *)
Stored ==
  UNION {{table[b].items[i].data : i \in DOMAIN table[b].items} :
           b \in DOMAIN table} \ {NULL}

(* The references the caller may pass with key: see the workloads. *)
Offered(key) ==
  IF workload.ordered
  THEN IF Pos(key) = Cardinality(inserted) + 1 THEN {Pos(key)} ELSE {}
  ELSE {d \in Data \ Stored : \A e \in Data \ Stored : d <= e}

(* How many allocations _grow_node_if_needed makes on bucket b when none  *)
(* fails; the caller's allocator may fail any one of them.                *)
Allocations(b) ==
  LET node == table[b]
  IN  IF node.count + 1 < node.capacity THEN 0
      ELSE IF node.capacity = 0 THEN 1
      ELSE IF tmp_capacity < node.capacity THEN 2 ELSE 1

AllocFailures(key) ==
  IF workload.oom THEN 0..Allocations(BucketOf(_compute_key(key))) ELSE {0}

(* A store that swaps the halves of the key. *)
StoreItem_Swapped(ukey, data) ==
  [key |-> [pkey |-> ukey.skey, skey |-> ukey.pkey], data |-> data]

(* item->data = data; item->key = ukey; *)
StoreItem(ukey, data) == [key |-> ukey, data |-> data]

(* An overwrite that never calls the callback. *)
FreedBySet_Never(old) == <<>>

(* node->count++ when the slot held no data *)
CountAfterSet(count, old) == IF old = NULL THEN count + 1 ELSE count

(* if (map->free_item) map->free_item(item->data): the references the     *)
(* overwrite of a slot holding old hands to the callback.                 *)
FreedBySet(old) == IF old # NULL /\ free_item THEN <<old>> ELSE <<>>

(* hashmap_set(map, key, data).  oom: the number of the allocation that   *)
(* fails, 0 for none.                                                     *)
hashmap_set(key, data, oom) ==
  IF ~key_len_positive(key) THEN assert_fails("set", key) ELSE
  LET ukey == _compute_key(key)
      b == BucketOf(ukey)
  IN
  \E g \in {_grow_node_if_needed(b, oom)} :
  \E item \in {_get_item(g.node, ukey, TRUE)} :
  LET node == g.node
      call == [NoCall EXCEPT !.op = "set", !.fn = "set", !.hashed = TRUE,
                             !.key = key, !.data = data,
                             !.grew = g.grew, !.nomem = g.nomem,
                             !.after = JustDeleted]
  IN
  /\ Usable
  /\ node.capacity <= MaxBucketCapacity
  /\ tmp' = g.tmp
  /\ tmp_capacity' = g.tmp_capacity
  /\ IF ~g.ok
     THEN /\ table' = table
          /\ last' = [call EXCEPT !.ok = FALSE]
          /\ inserted' = inserted
          /\ lastset' = lastset
     ELSE IF item = NoItem
     THEN /\ table' = [table EXCEPT ![b] = node]
          /\ last' = [call EXCEPT !.ok = FALSE]
          /\ inserted' = inserted
          /\ lastset' = lastset
     ELSE LET old == node.items[item].data
          IN  /\ table' = [table EXCEPT ![b] =
                   [items |-> [node.items EXCEPT ![item] = StoreItem(ukey, data)],
                    count |-> CountAfterSet(node.count, old),
                    capacity |-> node.capacity]]
              /\ last' = [call EXCEPT !.ok = TRUE, !.freed = FreedBySet(old)]
              /\ inserted' = inserted \cup {ukey}
              /\ lastset' = (ukey :> data) @@ lastset
  /\ UNCHANGED <<capacity, free_item, workload, deletes, fault>>

(* The reference hashmap_get(map, key) returns in the current state. *)
hashmap_get(key) ==
  LET ukey == _compute_key(key)
      node == table[BucketOf(ukey)]
      item == _get_item(node, ukey, FALSE)
  IN  IF item = NoItem THEN NULL ELSE node.items[item].data

(* A call of hashmap_get. *)
CallGet(key) ==
  IF ~key_len_positive(key) THEN assert_fails("get", key) ELSE
  /\ Usable
  /\ \E ret \in {hashmap_get(key)} :
       last' = [NoCall EXCEPT !.op = "get", !.fn = "get", !.hashed = TRUE,
                              !.key = key, !.ret = ret,
                              !.ok = (ret # NULL), !.after = JustDeleted]
  /\ UNCHANGED <<table, capacity, free_item, tmp, tmp_capacity,
                 workload, inserted, lastset, deletes, fault>>

(* The loop of hashmap_delete over the bucket copy node, from offset i:   *)
(* the index of the matching slot, NoItem when the loop returns false.    *)
(* The offset advances twice per iteration (i++ in the body and in the    *)
(* for statement).                                                        *)
RECURSIVE DeleteScan(_, _, _, _)
DeleteScan(node, ukey, idx, i) ==
  IF i >= node.capacity THEN NoItem
  ELSE
    LET at == (idx + i) % node.capacity
    IN  IF node.items[at].data = NULL THEN NoItem
        ELSE IF KEY_EQU(node.items[at].key, ukey) THEN at
        ELSE DeleteScan(node, ukey, idx, i + 2)

(* A delete that clears the matched slot and the slot after it. *)
BucketAfterDelete_TwoSlots(bucket, item) ==
  [bucket EXCEPT !.items[item] = ZeroItem,
                 !.items[(item + 1) % bucket.capacity] = ZeroItem]

(* A delete that clears the data of the slot and leaves its key. *)
BucketAfterDelete_DataOnly(bucket, item) ==
  [bucket EXCEPT !.items[item].data = NULL]

(* A delete that leaves the slot as it was. *)
BucketAfterDelete_NotCleared(bucket, item) == bucket

(* A delete that also halves the bucket's slot array. *)
BucketAfterDelete_Halved(bucket, item) ==
  [items |-> [i \in 0..((bucket.capacity \div 2) - 1) |->
                IF i = item THEN ZeroItem ELSE bucket.items[i]],
   count |-> bucket.count,
   capacity |-> bucket.capacity \div 2]

(* A delete that zeroes the slot's key and keeps its data reference. *)
BucketAfterDelete_KeyOnly(bucket, item) ==
  [bucket EXCEPT !.items[item].key = ZeroKey]

(* The bucket of the table after hashmap_delete cleared slot item of it:  *)
(* the slot is written through node.items, which is the table's array;    *)
(* node.count-- decrements the local copy of the bucket only.             *)
BucketAfterDelete(bucket, item) ==
  [bucket EXCEPT !.items[item] = ZeroItem]

(* Whether the division by zero of hashmap_delete traps: a choice only    *)
(* where the bucket of key has capacity 0.                                *)
Traps(key) ==
  IF table[BucketOf(_compute_key(key))].capacity = 0 THEN BOOLEAN ELSE {FALSE}

(* hashmap_delete(map, key, data).  want: the caller passes an            *)
(* out-parameter.  On a bucket of capacity 0 the index computation        *)
(* ukey.skey % node.capacity divides by zero: the call either traps       *)
(* (trap) or goes on to a loop that runs zero times and returns false.    *)
hashmap_delete(key, want, trap) ==
  IF ~key_len_positive(key) THEN assert_fails("delete", key) ELSE
  LET ukey == _compute_key(key)
      b == BucketOf(ukey)
      node == table[b]
      call == [NoCall EXCEPT !.op = "delete", !.fn = "delete", !.hashed = TRUE,
                             !.key = key, !.want = want,
                             !.after = JustDeleted]
  IN
  /\ Usable
  /\ IF node.capacity = 0
     THEN /\ fault' = trap
          /\ table' = table
          /\ deletes' = deletes
          /\ lastset' = lastset
          /\ last' = [call EXCEPT !.ok = FALSE]
     ELSE LET item == DeleteScan(node, ukey, ukey.skey % node.capacity, 0)
          IN  /\ fault' = fault
              /\ IF item = NoItem
                 THEN /\ table' = table
                      /\ deletes' = deletes
                      /\ lastset' = lastset
                      /\ last' = [call EXCEPT !.ok = FALSE]
                 ELSE /\ deletes < workload.deletes
                      /\ deletes' = deletes + 1
                      /\ lastset' = [k \in DOMAIN lastset \ {ukey} |-> lastset[k]]
                      /\ table' = [table EXCEPT ![b] = BucketAfterDelete(node, item)]
                      /\ last' = [call EXCEPT !.ok = TRUE,
                             !.out = IF want THEN node.items[item].data ELSE NULL]
  /\ UNCHANGED <<capacity, free_item, tmp, tmp_capacity, workload, inserted>>

(* An inner loop that stops at the first slot without data. *)
RECURSIVE IterateBucket_StopAtEmpty(_, _)
IterateBucket_StopAtEmpty(node, j) ==
  IF j >= node.capacity \/ node.items[j].data = NULL THEN <<>>
  ELSE <<[key |-> node.items[j].key, data |-> node.items[j].data]>>
       \o IterateBucket_StopAtEmpty(node, j + 1)

(* The inner loop of hashmap_iterate over the slots of bucket node from   *)
(* slot j: the callback's arguments, in order.                            *)
RECURSIVE IterateBucket(_, _)
IterateBucket(node, j) ==
  IF j >= node.capacity THEN <<>>
  ELSE IF node.items[j].data # NULL
  THEN <<[key |-> node.items[j].key, data |-> node.items[j].data]>>
       \o IterateBucket(node, j + 1)
  ELSE IterateBucket(node, j + 1)

(* An outer loop that visits the buckets from the last to the first. *)
RECURSIVE IterateTable_Descending(_)
IterateTable_Descending(i) ==
  IF i >= capacity THEN <<>>
  ELSE IF table[i].capacity = 0 THEN IterateTable_Descending(i + 1)
  ELSE IterateTable_Descending(i + 1) \o IterateBucket(table[i], 0)

(* The outer loop of hashmap_iterate from bucket i. *)
RECURSIVE IterateTable(_)
IterateTable(i) ==
  IF i >= capacity THEN <<>>
  ELSE IF table[i].capacity = 0 THEN IterateTable(i + 1)
  ELSE IterateBucket(table[i], 0) \o IterateTable(i + 1)

(* An iteration that hands every entry to the destroy callback and       *)
(* empties its slot.                                                      *)
hashmap_iterate_Clearing ==
  /\ Usable
  /\ last' = [NoCall EXCEPT !.op = "iterate", !.fn = "iterate",
                            !.visits = IterateTable(0),
                            !.freed = [i \in 1..Len(IterateTable(0)) |->
                                         IterateTable(0)[i].data]]
  /\ table' = [b \in DOMAIN table |->
                 [table[b] EXCEPT !.items = [i \in DOMAIN table[b].items |->
                                              ZeroItem],
                                  !.count = 0]]
  /\ UNCHANGED <<capacity, free_item, tmp, tmp_capacity,
                 workload, inserted, lastset, deletes, fault>>

(* hashmap_iterate(map, callback) *)
hashmap_iterate ==
  /\ Usable
  /\ last' = [NoCall EXCEPT !.op = "iterate", !.fn = "iterate",
                            !.visits = IterateTable(0)]
  /\ UNCHANGED <<table, capacity, free_item, tmp, tmp_capacity,
                 workload, inserted, lastset, deletes, fault>>

(* An inner loop bounded by the bucket's count instead of its capacity. *)
RECURSIVE FreeBucket_ByCount(_, _)
FreeBucket_ByCount(node, j) ==
  IF j >= node.count THEN <<>>
  ELSE IF node.items[j].data # NULL
  THEN <<node.items[j].data>> \o FreeBucket_ByCount(node, j + 1)
  ELSE FreeBucket_ByCount(node, j + 1)

(* The inner loop of hashmap_destroy over the slots of bucket node from   *)
(* slot j: the references passed to map->free_item, in order.             *)
RECURSIVE FreeBucket(_, _)
FreeBucket(node, j) ==
  IF j >= node.capacity THEN <<>>
  ELSE IF node.items[j].data # NULL
  THEN <<node.items[j].data>> \o FreeBucket(node, j + 1)
  ELSE FreeBucket(node, j + 1)

(* The outer loop of hashmap_destroy from bucket i.  A bucket has a slot  *)
(* array (items != NULL) once its first allocation succeeded.             *)
RECURSIVE DestroyTable(_)
DestroyTable(i) ==
  IF i >= capacity THEN <<>>
  ELSE IF DOMAIN table[i].items # {} /\ free_item
  THEN FreeBucket(table[i], 0) \o DestroyTable(i + 1)
  ELSE DestroyTable(i + 1)

(* hashmap_destroy(map): the callbacks, then the storage is released and  *)
(* the map is not called again.                                           *)
hashmap_destroy ==
  /\ Usable
  /\ last' = [NoCall EXCEPT !.op = "destroy", !.fn = "destroy",
                            !.freed = DestroyTable(0)]
  /\ UNCHANGED <<table, capacity, free_item, tmp, tmp_capacity,
                 workload, inserted, lastset, deletes, fault>>

(* The keys the caller passes to hashmap_delete: the shrink workload      *)
(* deletes its keys in order once all of them are set.                    *)
Deletable ==
  IF workload.name = "shrink"
  THEN IF Cardinality(inserted) = initial_items /\ deletes < items_to_delete
       THEN {workload.keys[deletes + 1]} ELSE {}
  ELSE Keys

(* The callers that may pass the empty string as a key: all but the      *)
(* churn and cycle callers.                                               *)
PassesEmptyKey == workload.name \in {"fill", "spread", "shrink"}

Next ==
  \/ \E key \in Keys : \E data \in Offered(key), oom \in AllocFailures(key) :
       hashmap_set(key, data, oom)
  \/ \E key \in Keys : CallGet(key)
  \/ \E key \in Deletable, want \in BOOLEAN : \E trap \in Traps(key) :
       hashmap_delete(key, want, trap)
  \/ PassesEmptyKey /\ hashmap_set(NoKey, Min(Data), 0)
  \/ PassesEmptyKey /\ CallGet(NoKey)
  \/ PassesEmptyKey /\ hashmap_delete(NoKey, FALSE, FALSE)
  \/ hashmap_iterate
  \/ hashmap_destroy

Spec == Init /\ [][Next]_vars

(* ------------------------------- claims ------------------------------- *)
Bucket0 == table[BucketOf(_compute_key(workload.keys[1]))]

(* C1: in every reachable state, when hashmap_set(K, D) has just returned *)
(* true, hashmap_get(K) returns D; growth and earlier deletes included.   *)
C1_SetThenGet ==
  (last.op = "set" /\ last.ok) => hashmap_get(last.key) = last.data

(* C1 witness: a set that grew a bucket from 8 to 16 slots after deletes  *)
(* had succeeded, and returned true.                                      *)
C1_Witness ==
  /\ last.op = "set" /\ last.ok /\ last.grew
  /\ deletes > 0
  /\ Bucket0.capacity = 2 * HASH_MAP_BUCKET_SIZE
  /\ hashmap_get(last.key) = last.data

(* C2 (as claimed): a successful set(K, D2) made while get(K) returns D1  *)
(* hands exactly D1 to the configured destroy callback, leaves the        *)
(* bucket's count unchanged, and get(K) then returns D2.                  *)
C2_Overwrite ==
  [][\A k \in Keys :
       (hashmap_get(k) # NULL /\ free_item
          /\ last'.op = "set" /\ last'.key = k /\ last'.ok)
       => /\ last'.freed = <<hashmap_get(k)>>
          /\ table'[BucketOf(_compute_key(k))].count
               = table[BucketOf(_compute_key(k))].count
          /\ hashmap_get(k)' = last'.data]_vars

(* C3 (as claimed): whenever hashmap_get(K) returns a reference, a call   *)
(* of hashmap_delete(K) made in that state returns true.                  *)
C3_DeleteFindsPresent ==
  [][\A k \in Keys :
       (hashmap_get(k) # NULL /\ last'.op = "delete" /\ last'.key = k)
       => last'.ok]_vars

(* C4 (as claimed): when hashmap_delete(K) has just returned true,        *)
(* hashmap_get(K) returns NULL.                                           *)
C4_DeletedThenAbsent ==
  (last.op = "delete" /\ last.ok) => hashmap_get(last.key) = NULL

(* C5 (as claimed): when hashmap_delete(K, &out) returns true, out is the *)
(* reference hashmap_get(K) returned immediately before the delete.       *)
C5_DeleteReturnsStored ==
  [][\A k \in Keys :
       (last'.op = "delete" /\ last'.key = k /\ last'.ok /\ last'.want)
       => last'.out = hashmap_get(k)]_vars

(* C6: in every reachable state, hashmap_get(K) returns NULL for every    *)
(* key K whose two-part key no successful set has inserted, whether its   *)
(* bucket has capacity 0 or holds other keys.                             *)
C6_NeverInsertedNotFound ==
  \A k \in Keys : _compute_key(k) \notin inserted => hashmap_get(k) = NULL

(* C6 witness: hashmap_get has just returned NULL for a key never         *)
(* inserted, from a bucket that holds another key.                        *)
C6_Witness ==
  /\ last.op = "get" /\ last.ret = NULL
  /\ _compute_key(last.key) \notin inserted
  /\ \E i \in DOMAIN Bucket0.items : Bucket0.items[i].data # NULL

(* C7 (as claimed): hashmap_delete(K) for a key K never inserted returns  *)
(* false without a fault and without changing the table, also when K's    *)
(* bucket still has capacity 0.                                           *)
C7_DeleteNeverInserted ==
  [][(last'.op = "delete" /\ _compute_key(last'.key) \notin inserted)
     => (~fault' /\ ~last'.ok /\ table' = table)]_vars

(* C8: when hashmap_delete(K) has returned true, a second                 *)
(* hashmap_delete(K) called immediately afterwards returns false and      *)
(* changes nothing of the map.                                            *)
C8_SecondDeleteFails ==
  [][(last.op = "delete" /\ last.ok /\ last'.op = "delete" /\ last'.key = last.key)
     => (~last'.ok /\ ~fault'
         /\ UNCHANGED <<table, capacity, free_item, tmp, tmp_capacity>>)]_vars

(* C8 witness: a delete has just returned false for the key the call      *)
(* before it deleted.                                                     *)
C8_Witness ==
  last.op = "delete" /\ ~last.ok /\ last.after = last.key

(* C9: after a successful delete(K) (so after an earlier successful       *)
(* set(K, D1)), the next call set(K, D2) returns true unless an           *)
(* allocation fails, and get(K) then returns D2.                          *)
C9_ReinsertAfterDelete ==
  (last.op = "set" /\ last.after = last.key /\ ~last.nomem)
  => (last.ok /\ hashmap_get(last.key) = last.data)

(* C9 witness: a set of the key the call before it deleted has returned   *)
(* true, in a bucket that holds another entry as well.                    *)
C9_Witness ==
  /\ last.op = "set" /\ last.after = last.key /\ last.ok
  /\ \E i \in DOMAIN Bucket0.items :
       /\ Bucket0.items[i].data # NULL
       /\ ~KEY_EQU(Bucket0.items[i].key, _compute_key(last.key))

(* C10: a fresh container into which 9 or 10 distinct keys of one primary *)
(* bucket are set, one after another: every set returns true, the bucket  *)
(* ends with capacity 16 (twice HASH_MAP_BUCKET_SIZE) and a count equal   *)
(* to the number of keys set, and every key set is retrievable with its   *)
(* own value.                                                             *)
C10_GrowthOnFill ==
  workload.name = "fill" =>
    /\ last.op = "set" => last.ok
    /\ \A i \in 1..Len(workload.keys) :
         BucketOf(_compute_key(workload.keys[i])) = BucketOf(_compute_key(workload.keys[1]))
    /\ Cardinality(inserted) \in {9, 10} =>
         /\ Bucket0.capacity = 16
         /\ Bucket0.count = Cardinality(inserted)
         /\ \A i \in 1..Cardinality(inserted) : hashmap_get(workload.keys[i]) = i

(* C10 witness: ten keys set, the tenth just retrieved with its value.    *)
C10_Witness ==
  /\ workload.name = "fill"
  /\ Cardinality(inserted) = 10
  /\ Bucket0.capacity = 16 /\ Bucket0.count = 10
  /\ last.op = "get" /\ last.key = workload.keys[10] /\ last.ret = 10

(* C11: when no delete has succeeded (sets only, overwrites included),    *)
(* hashmap_iterate invokes its callback exactly once per key inserted:    *)
(* as many visits as distinct keys, and for each key a visit with the     *)
(* data last set for it.                                                  *)
C11_IterateComplete ==
  (last.op = "iterate" /\ deletes = 0) =>
    /\ Len(last.visits) = Cardinality(inserted)
    /\ \A u \in inserted :
         \E i \in 1..Len(last.visits) :
           last.visits[i].key = u /\ last.visits[i].data = lastset[u]

(* C11 witness: an iteration over ten keys of a bucket that has grown.    *)
C11_Witness ==
  /\ last.op = "iterate" /\ deletes = 0
  /\ Len(last.visits) = 10
  /\ Bucket0.capacity = 2 * HASH_MAP_BUCKET_SIZE

(* The slots of bucket b that hold data, and those of the whole table. *)
Occupied(b) == {i \in DOMAIN table[b].items : table[b].items[i].data # NULL}
OccupiedSlots == UNION {{<<b, i>> : i \in Occupied(b)} : b \in DOMAIN table}

(* C12: hashmap_destroy on a map created with a destroy callback invokes  *)
(* the callback exactly as many times as there are occupied slots, once   *)
(* on each stored data reference; on a map created without a callback it  *)
(* invokes nothing.                                                       *)
C12_DestroyFreesOccupied ==
  last.op = "destroy" =>
    IF free_item
    THEN /\ Len(last.freed) = Cardinality(OccupiedSlots)
         /\ \A r \in Stored :
              Cardinality({i \in 1..Len(last.freed) : last.freed[i] = r}) = 1
    ELSE last.freed = <<>>

(* C12 witness: a map with a callback destroyed while it holds two        *)
(* entries, after a delete removed another.                               *)
C12_Witness ==
  /\ last.op = "destroy" /\ free_item
  /\ deletes > 0
  /\ Cardinality(OccupiedSlots) = 2
  /\ Len(last.freed) = 2

(* C13: hashmap_delete hands nothing to the destroy callback, and the     *)
(* reference it removes is in no slot afterwards; every call hands the    *)
(* callback only references that a slot held when the call began, and a   *)
(* reference gets into a slot only as the data argument of hashmap_set.   *)
(* So a reference a delete removed reaches the callback neither by a      *)
(* later set nor by hashmap_destroy, unless the caller sets it again.     *)
C13_DeleteTransfersOwnership ==
  [][/\ last'.op = "delete" =>
          /\ last'.freed = <<>>
          /\ last'.ok => Cardinality(Stored') = Cardinality(Stored) - 1
          /\ (last'.ok /\ last'.want) =>
                (last'.out \in Stored /\ last'.out \notin Stored')
     /\ \A i \in 1..Len(last'.freed) : last'.freed[i] \in Stored
     /\ Stored' \subseteq
          Stored \cup (IF last'.op = "set" THEN {last'.data} ELSE {})]_vars

(* C13 witness: a delete on a map with a callback has returned a          *)
(* reference to its caller, called back nothing, and other entries stay.  *)
C13_Witness ==
  /\ last.op = "delete" /\ last.ok /\ last.want /\ free_item
  /\ last.out # NULL /\ last.out \notin Stored
  /\ last.freed = <<>>
  /\ Stored # {}

(* C14: a hashmap_set during which an allocation fails (the scratch       *)
(* buffer, the new slot array or the first slot array of a bucket)        *)
(* returns false, hands nothing to the destroy callback, leaves every     *)
(* bucket's slots, count and capacity as they were, and hashmap_get       *)
(* returns for every key what it returned before the call.                *)
C14_AllocationFailure ==
  [][(last'.op = "set" /\ last'.nomem) =>
       /\ ~last'.ok
       /\ last'.freed = <<>>
       /\ table' = table
       /\ \A k \in Keys : hashmap_get(k)' = hashmap_get(k)]_vars

(* C14 witness: a set has failed for lack of memory while growing a       *)
(* bucket of 8 slots that holds entries, the scratch buffer allocated.    *)
C14_Witness ==
  /\ last.op = "set" /\ last.nomem /\ ~last.ok
  /\ Bucket0.capacity = HASH_MAP_BUCKET_SIZE
  /\ tmp_capacity = HASH_MAP_BUCKET_SIZE
  /\ Occupied(BucketOf(_compute_key(last.key))) # {}

(* C15 (as claimed): in the shrink workload the 9 sets grow the bucket to *)
(* capacity 16; every delete returns true and, when asked, the stored     *)
(* data; once 7 keys are deleted the bucket has capacity 8 and count 2,   *)
(* the 2 remaining keys are retrievable with their values, a deleted key  *)
(* is not found, and hashmap_destroy calls back exactly 2 times.          *)
C15_ShrinkAfterDeletes ==
  workload.name = "shrink" =>
    /\ (Cardinality(inserted) = initial_items /\ deletes = 0) =>
          Bucket0.capacity = 2 * HASH_MAP_BUCKET_SIZE
    /\ last.op = "delete" =>
          (last.ok /\ (last.want => last.out = Pos(last.key)))
    /\ deletes = items_to_delete =>
          /\ Bucket0.capacity = HASH_MAP_BUCKET_SIZE
          /\ Bucket0.count = initial_items - items_to_delete
          /\ \A i \in (items_to_delete + 1)..initial_items :
               hashmap_get(workload.keys[i]) = i
          /\ hashmap_get(workload.keys[1]) = NULL
          /\ last.op = "destroy" =>
               Len(last.freed) = initial_items - items_to_delete

(* C16: right after hashmap_create every bucket has capacity 0, count 0   *)
(* and no slot array; hashmap_iterate on a map into which nothing was set *)
(* visits nothing; and in every reachable state a bucket to which no      *)
(* successful hashmap_set has mapped a key still has capacity 0 and       *)
(* count 0.                                                               *)
C16_LazyBuckets ==
  /\ last.op = "create" => \A b \in DOMAIN table : table[b] = ZeroBucket
  /\ (last.op = "iterate" /\ inserted = {}) => last.visits = <<>>
  /\ \A b \in DOMAIN table :
       (\A u \in inserted : BucketOf(u) # b) =>
         (table[b].capacity = 0 /\ table[b].count = 0)

(* C16 witness: one bucket is allocated and holds a key while the bucket  *)
(* of the key just passed to a set that ran out of memory is still        *)
(* unallocated.                                                           *)
C16_Witness ==
  /\ last.op = "set" /\ last.nomem
  /\ table[BucketOf(_compute_key(last.key))].capacity = 0
  /\ \E b \in DOMAIN table :
       table[b].capacity = HASH_MAP_BUCKET_SIZE /\ Occupied(b) # {}

(* The data references of the slots that hold the two-part key of the     *)
(* string key, and whether two strings have the same 64-bit hash.         *)
Entries(key) ==
  LET u == _compute_key(key)
      items == table[BucketOf(u)].items
  IN  {items[i].data :
         i \in {j \in DOMAIN items : items[j].data # NULL /\ items[j].key = u}}
SameHash(k1, k2) == hash_function(k1) = hash_function(k2)

(* C17: a key is its hash.  In every reachable state, when a set(K, D)    *)
(* has just returned true, hashmap_get returns D for every string with    *)
(* the hash of K, and hashmap_get of a string that has entries returns    *)
(* one of its own; and a successful set(K, D) leaves the entries of every *)
(* string whose hash differs from that of K in either half as they were.  *)
C17_KeyIsHash ==
  /\ [](/\ (last.op = "set" /\ last.ok) =>
             \A k \in Keys : SameHash(k, last.key) => hashmap_get(k) = last.data
        /\ \A k \in Keys :
             IF Entries(k) = {} THEN hashmap_get(k) = NULL
             ELSE hashmap_get(k) \in Entries(k))
  /\ [][(last'.op = "set" /\ last'.ok) =>
          \A k \in Keys : ~SameHash(k, last'.key) => Entries(k)' = Entries(k)]_vars

(* C17 witness: a set of "t1" has overwritten the value of the entry it   *)
(* shares with "s1", while "s3" of the same bucket and the same probe     *)
(* start keeps its own value.                                             *)
C17_Witness ==
  /\ last.op = "set" /\ last.ok /\ last.key = "t1"
  /\ Len(last.freed) = 1
  /\ hashmap_get("s1") = last.data
  /\ BucketOf(_compute_key("s3")) = BucketOf(_compute_key("s1"))
  /\ hashmap_get("s3") \notin {NULL, last.data}

(* C18: a call of hashmap_set, hashmap_get or hashmap_delete with the     *)
(* empty string as key is stopped by the assertion: the call aborts       *)
(* before the hash function is called, and the table, the scratch buffer  *)
(* and the map's fields are as before the call.                           *)
C18_EmptyKeyRejected ==
  [][(last'.key = NoKey /\ last'.fn \in {"set", "get", "delete"}) =>
       /\ last'.op = "assert"
       /\ fault'
       /\ ~last'.hashed
       /\ UNCHANGED <<table, capacity, free_item, tmp, tmp_capacity>>]_vars

(* C18 witness: a delete with the empty key has aborted on a map that     *)
(* holds entries.                                                         *)
C18_Witness ==
  /\ last.op = "assert" /\ last.fn = "delete" /\ last.key = NoKey
  /\ fault
  /\ Stored # {}

(* C19 (as claimed): in every reachable state the count of each bucket    *)
(* equals the number of its slots that hold data.                         *)
C19_CountIsOccupied ==
  \A b \in DOMAIN table : table[b].count = Cardinality(Occupied(b))

(* C20: in every reachable state every bucket with capacity > 0 has a     *)
(* count strictly below its capacity, and at least one slot without data. *)
C20_LoadFactor ==
  \A b \in DOMAIN table :
    table[b].capacity > 0 =>
      /\ table[b].count < table[b].capacity
      /\ Cardinality(Occupied(b)) < table[b].capacity

(* C20 witness: a set has filled a bucket of 8 slots up to 7 entries.     *)
C20_Witness ==
  /\ last.op = "set" /\ last.ok
  /\ Bucket0.capacity = HASH_MAP_BUCKET_SIZE
  /\ Bucket0.count = HASH_MAP_BUCKET_SIZE - 1
  /\ Cardinality(Occupied(BucketOf(_compute_key(last.key)))) = HASH_MAP_BUCKET_SIZE - 1

(* c is HASH_MAP_BUCKET_SIZE * 2^k for some k >= 0. *)
RECURSIVE IsDoubledBase(_)
IsDoubledBase(c) ==
  \/ c = HASH_MAP_BUCKET_SIZE
  \/ c > HASH_MAP_BUCKET_SIZE /\ c % 2 = 0 /\ IsDoubledBase(c \div 2)

C22_GrowthTrigger ==
  [][(last'.op = "set" /\ ~last'.nomem) =>
       \A b \in {BucketOf(_compute_key(last'.key))} :
         /\ last'.grew <=>
              (Cardinality(Occupied(b)) + 1 >= table[b].capacity)
         /\ last'.grew =>
              table'[b].capacity =
                (IF table[b].capacity = 0 THEN HASH_MAP_BUCKET_SIZE
                 ELSE 2 * table[b].capacity)]_vars

(* The (key, data) pairs of the slots of bucket node that hold data, and  *)
(* the reference a lookup of the two-part key ukey in node returns.       *)
Pairs(node) ==
  {<<node.items[i].key, node.items[i].data>> :
     i \in {j \in DOMAIN node.items : node.items[j].data # NULL}}
NodeGet(node, ukey) ==
  LET item == _get_item(node, ukey, FALSE)
  IN  IF item = NoItem THEN NULL ELSE node.items[item].data

(* C23 (as claimed): when a hashmap_set grows a bucket that holds data,   *)
(* the grown bucket (before the set stores its own entry) holds the same  *)
(* (key, data) pairs in as many slots as the bucket held before, has the  *)
(* same count, and a lookup of every key returns in it what it returned   *)
(* before the growth.                                                     *)
C23_GrowthPreserves ==
  [][(last'.op = "set" /\ last'.grew) =>
       \A b \in {BucketOf(_compute_key(last'.key))} :
         Occupied(b) # {} =>
           \A g \in {_grow_node_if_needed(b, 0).node} :
             /\ Pairs(g) = Pairs(table[b])
             /\ Cardinality({j \in DOMAIN g.items : g.items[j].data # NULL})
                  = Cardinality(Occupied(b))
             /\ g.count = table[b].count
             /\ \A k \in Keys :
                  NodeGet(g, _compute_key(k)) = NodeGet(table[b], _compute_key(k))]_vars

(* C24: in every reachable state, a hashmap_set in which no allocation    *)
(* failed has returned true: after the growth step the lookup that        *)
(* accepts an empty slot finds a slot.                                    *)
C24_SetSucceeds ==
  (last.op = "set" /\ ~last.nomem) => last.ok

(* C24 witness: a set of a key that is present has doubled its bucket to  *)
(* 16 slots, found the slot holding the key and overwritten it.           *)
C24_Witness ==
  /\ last.op = "set" /\ last.ok /\ last.grew
  /\ Len(last.freed) = 1
  /\ Bucket0.capacity = 2 * HASH_MAP_BUCKET_SIZE

(* The string key occupies a slot of its bucket, and every slot from its  *)
(* start index up to that slot, in probe order, holds data.               *)
OnUnbrokenRun(key) ==
  LET u == _compute_key(key)
      node == table[BucketOf(u)]
  IN  /\ node.capacity > 0
      /\ \E d \in 0..(node.capacity - 1) :
           /\ node.items[(u.skey + d) % node.capacity].data # NULL
           /\ node.items[(u.skey + d) % node.capacity].key = u
           /\ \A e \in 0..(d - 1) :
                node.items[(u.skey + e) % node.capacity].data # NULL

(* C25 (as claimed): hashmap_delete(K) returns true whenever K occupies a *)
(* slot and every slot between K's start index and that slot, in probe    *)
(* order, is occupied.                                                    *)
C25_DeleteScanFinds ==
  [][\A k \in Keys :
       (last'.op = "delete" /\ last'.key = k /\ OnUnbrokenRun(k)) => last'.ok]_vars

(* C26: a call of hashmap_delete(K), whether it returns true or false,    *)
(* leaves the result of hashmap_get(K') as it was for every key K' whose  *)
(* two-part key differs from that of K.                                   *)
C26_DeleteHidesNothing ==
  [][last'.op = "delete" =>
       \A k \in Keys : ~SameHash(k, last'.key) =>
         \A u \in {_compute_key(k)} :
           NodeGet(table'[BucketOf(u)], u) = hashmap_get(k)]_vars

(* C26 witness: the delete of "k00" has emptied slot 0, the start index   *)
(* of "k60", which sits in slot 1 behind the hole and is still found.     *)
C26_Witness ==
  /\ workload.name = "churn"
  /\ last.op = "delete" /\ last.ok /\ last.key = "k00"
  /\ Bucket0.items[0].data = NULL
  /\ Bucket0.items[1].data # NULL
  /\ Bucket0.items[1].key = _compute_key("k60")
  /\ hashmap_get("k60") = Bucket0.items[1].data

(* C27: in every reachable state no bucket holds two occupied slots with  *)
(* the same two-part key: a set of a key that is present lands on the     *)
(* slot that holds it, also when an empty slot precedes it in probe order.*)
C27_KeyUnique ==
  \A b \in DOMAIN table : \A i, j \in Occupied(b) :
    KEY_EQU(table[b].items[i].key, table[b].items[j].key) => i = j

(* C28: the primary capacity never changes after creation, and in every   *)
(* reachable state every occupied slot of bucket b holds a key whose      *)
(* primary part modulo the primary capacity is b.                         *)
C28_BucketResidence ==
  /\ [](\A b \in DOMAIN table : \A i \in Occupied(b) :
          table[b].items[i].key.pkey % capacity = b)
  /\ [][capacity' = capacity]_vars

(* C28 witness: a set of "s3" (primary 3) has stored its entry in bucket 1 *)
(* beside two others, while bucket 0 holds the entry of "s2" (primary 2). *)
C28_Witness ==
  /\ workload.name = "spread"
  /\ last.op = "set" /\ last.ok /\ last.key = "s3"
  /\ Cardinality(Occupied(1)) >= 2
  /\ Occupied(0) # {}
  /\ \E i \in Occupied(1) : table[1].items[i].key = _compute_key("s3")

(* C29: a hashmap_set(K, D), growth included, leaves every bucket other   *)
(* than bucket primary(K) mod primary capacity exactly as it was: slots,  *)
(* count and capacity.                                                    *)
C29_NoGlobalRehash ==
  [][last'.op = "set" =>
       \A b \in DOMAIN table :
         b # _compute_key(last'.key).pkey % capacity => table'[b] = table[b]]_vars

(* C29 witness: a set of "s2" has allocated the slots of bucket 0 and      *)
(* stored its entry there while bucket 1 holds entries.                   *)
C29_Witness ==
  /\ workload.name = "spread"
  /\ last.op = "set" /\ last.ok /\ last.grew /\ last.key = "s2"
  /\ table[0].capacity = HASH_MAP_BUCKET_SIZE /\ table[0].count = 1
  /\ Cardinality(Occupied(1)) >= 2

(* C30: hashmap_get and hashmap_iterate leave the slots, count and        *)
(* capacity of every bucket unchanged and never invoke the destroy        *)
(* callback, whether or not the key is found.                             *)
C30_ReadOnly ==
  [][last'.op \in {"get", "iterate"} =>
       /\ UNCHANGED <<table, capacity, free_item, tmp, tmp_capacity>>
       /\ last'.freed = <<>>]_vars

(* C30 witness: an iteration has visited three entries of a map that has  *)
(* a destroy callback, and all three are still in their slots.            *)
C30_Witness ==
  /\ workload.name = "spread"
  /\ last.op = "iterate" /\ free_item
  /\ Len(last.visits) = 3
  /\ Cardinality(OccupiedSlots) = 3
  /\ last.freed = <<>>

StoredIn(tbl) ==
  UNION {{tbl[b].items[i].data : i \in DOMAIN tbl[b].items} :
           b \in DOMAIN tbl} \ {NULL}

(* C32: with a destroy callback, and deletes called with an out-parameter,*)
(* every reference accepted by a successful set is handed over exactly    *)
(* once.  A reference the map holds is in exactly one slot; a successful  *)
(* set of a reference the caller owns adds it and hands the callback at   *)
(* most one reference, which the map held and holds no more; a successful *)
(* delete hands the caller one reference the map held, which it holds no  *)
(* more, and the callback nothing; every other call but destroy moves no  *)
(* reference; and hashmap_destroy hands the callback every reference the  *)
(* map holds, once each.                                                  *)
C32_OwnershipConserved ==
  /\ [](free_item =>
          /\ Cardinality(OccupiedSlots) = Cardinality(Stored)
          /\ last.op = "destroy" =>
               /\ Len(last.freed) = Cardinality(Stored)
               /\ \A r \in Stored : \E i \in 1..Len(last.freed) : last.freed[i] = r)
  /\ [][(free_item /\ last'.op # "destroy") =>
          \A handed \in {{last'.freed[i] : i \in 1..Len(last'.freed)}} :
            IF last'.op = "set" /\ last'.ok
            THEN last'.data \notin Stored =>
                   /\ Len(last'.freed) = Cardinality(handed)
                   /\ handed \subseteq Stored
                   /\ StoredIn(table') = (Stored \ handed) \cup {last'.data}
            ELSE IF last'.op = "delete" /\ last'.ok
            THEN last'.want =>
                   /\ handed = {}
                   /\ last'.out \in Stored
                   /\ StoredIn(table') = Stored \ {last'.out}
            ELSE handed = {} /\ StoredIn(table') = Stored]_vars

(* C32 witness: after a delete, hashmap_destroy has handed the callback   *)
(* three references, two of them stored under the same key.               *)
C32_Witness ==
  /\ workload.name = "churn"
  /\ last.op = "destroy" /\ free_item /\ deletes > 0
  /\ Len(last.freed) = 3
  /\ \E k \in Keys : Cardinality(Entries(k)) = 2

(* The place of the occupied slot i of bucket b among the occupied slots  *)
(* of the table, by ascending bucket index and then ascending slot index. *)
VisitRank(b, i) ==
  1 + Cardinality({s \in OccupiedSlots :
                     s[1] < b \/ (s[1] = b /\ s[2] < i)})

(* C33: hashmap_iterate calls the visitor exactly once for each occupied  *)
(* slot and for no empty slot, with the key and data of that slot, bucket *)
(* by bucket in ascending index and within a bucket in ascending slot     *)
(* index.                                                                 *)
C33_IterateOrder ==
  last.op = "iterate" =>
    /\ Len(last.visits) = Cardinality(OccupiedSlots)
    /\ \A s \in OccupiedSlots :
         last.visits[VisitRank(s[1], s[2])] =
           [key |-> table[s[1]].items[s[2]].key,
            data |-> table[s[1]].items[s[2]].data]

(* C33 witness: an iteration over a table with one entry in bucket 0 and  *)
(* two in bucket 1 has visited the entry of "s2" in bucket 0 first.       *)
C33_Witness ==
  /\ workload.name = "spread"
  /\ last.op = "iterate"
  /\ Cardinality(Occupied(0)) = 1 /\ Cardinality(Occupied(1)) = 2
  /\ Len(last.visits) = 3
  /\ last.visits[1].key = _compute_key("s2")

(* C34: callers set only non-null references, and in every reachable      *)
(* state every slot without data has the key {0, 0}: at the first         *)
(* allocation, after growth and after a delete.                           *)
C34_CanonicalEmpty ==
  \A b \in DOMAIN table : \A i \in DOMAIN table[b].items :
    table[b].items[i].data = NULL =>
      table[b].items[i].key = [pkey |-> 0, skey |-> 0]

(* C34 witness: the first delete after a growth to 16 slots has emptied   *)
(* one of nine occupied slots.                                            *)
C34_Witness ==
  /\ workload.name = "shrink"
  /\ last.op = "delete" /\ last.ok /\ deletes = 1
  /\ Bucket0.capacity = 2 * HASH_MAP_BUCKET_SIZE
  /\ Cardinality(OccupiedSlots) = initial_items - 1

====
